---------------------------- MODULE Spec2Model ----------------------------
(***************************************************************************)
(* A model of the gauze crate: the Bloom filter of src/src/bloom.rs (its   *)
(* constructor, the parameter search optimize/optimize_values, the double  *)
(* hashing of get_bit_indexes, insert, might_contain, reset, count_approx  *)
(* and the type-erased DynFilter entry points), float_to_usize of          *)
(* src/src/utils.rs and the DynHash forwarding of src/src/lib.rs.          *)
(*                                                                         *)
(* Numbers.  TLC's integers are 32 bits wide, so                           *)
(*  - an f64 that holds a size or a count (capacity, num_bits,             *)
(*    hash_fns_count) is a binary floating point number with the exponent  *)
(*    range of f64 and a significand of MantBits bits: [c, m, e] stands    *)
(*    for m * 2^e with 2^(MantBits-1) <= m < 2^MantBits, c tells finite    *)
(*    values from +infinity and NaN;                                       *)
(*  - an f64 that holds a rate in [0,1] (error_rate, target_err_rate) and  *)
(*    the arguments of exp and ln are fixed point numbers scaled by        *)
(*    FixOne = 2^FixBits; NaNRate stands for NaN;                          *)
(*  - a u64 is a tuple of four 16 bit limbs, most significant first, with  *)
(*    wrapping arithmetic.                                                 *)
(***************************************************************************)
EXTENDS Integers, Sequences, FiniteSets, TLC

\* ------------------------------------------------------------------------
\* f64 values that hold sizes and counts
\* ------------------------------------------------------------------------

\* bits of the significand of a modelled f64, and fraction bits of a rate
MantBits == 24
FixBits == 24
\* f64 is finite below 2^F64ExpRange (f64::MAX is just below it)
F64ExpRange == 1024
\* the largest exponent e of a finite m * 2^e
F64MaxExp == F64ExpRange - MantBits

MantLo == 2^(MantBits - 1)
MantHi == 2^MantBits
FixOne == 2^FixBits

Fin(m, e) == [c |-> "fin", m |-> m, e |-> e]
Inf == [c |-> "inf", m |-> 0, e |-> 0]
NaN == [c |-> "nan", m |-> 0, e |-> 0]
Zero == Fin(0, 0)
\* f64::MAX
F64Max == Fin(MantHi - 1, F64MaxExp)

\* negative values: -(m * 2^e) with m > 0, and -infinity
Neg(m, e) == [c |-> "neg", m |-> m, e |-> e]
NegInf == [c |-> "neginf", m |-> 0, e |-> 0]

IsFinite(x) == x.c \in {"fin", "neg"}
IsInfinite(x) == x.c \in {"inf", "neginf"}
IsNaN(x) == x.c = "nan"
IsNegative(x) == x.c \in {"neg", "neginf"}

\* |x|, and -x (-0.0 is taken as 0.0, which compares equal to it)
AbsF(x) == IF x.c = "neg" THEN Fin(x.m, x.e) ELSE IF x.c = "neginf" THEN Inf ELSE x
NegF(x) == IF x.c = "fin" THEN (IF x.m = 0 THEN x ELSE Neg(x.m, x.e))
           ELSE IF x.c = "neg" THEN Fin(x.m, x.e)
           ELSE IF x.c = "inf" THEN NegInf
           ELSE IF x.c = "neginf" THEN Inf
           ELSE x

RECURSIVE NormUp(_, _)
NormUp(m, e) == IF m >= MantLo THEN <<m, e>> ELSE NormUp(2 * m, e - 1)

RECURSIVE NormDown(_, _)
NormDown(m, e) == IF m < MantHi THEN <<m, e>> ELSE NormDown((m + 1) \div 2, e + 1)

\* m * 2^e rounded to a significand of MantBits bits; +infinity on overflow
Norm(m, e) ==
    IF m = 0 THEN Zero
    ELSE LET n == IF m < MantLo THEN NormUp(m, e) ELSE NormDown(m, e)
         IN  IF n[2] > F64MaxExp THEN Inf ELSE Fin(n[1], n[2])

\* `n as f64` for an integer 0 <= n < 2^31
FromInt(n) == Norm(n, 0)

\* a finite x as an integer, for x an integer below 2^31
ToInt(x) == IF x.m = 0 THEN 0
            ELSE IF x.e >= 0 THEN x.m * 2^(x.e) ELSE x.m \div 2^(-x.e)

\* x < y and x = y on finite non-negative values
LtFin(x, y) ==
    IF x.m = 0 THEN y.m > 0
    ELSE IF y.m = 0 THEN FALSE
    ELSE x.e < y.e \/ (x.e = y.e /\ x.m < y.m)

\* x < y on non-negative values
LtNonNegative(x, y) ==
    IF IsInfinite(x) THEN FALSE
    ELSE IF IsInfinite(y) THEN TRUE
    ELSE LtFin(x, y)

\* IEEE comparison x < y: false when either is NaN
LtF(x, y) ==
    /\ ~IsNaN(x) /\ ~IsNaN(y)
    /\ IF IsNegative(x) /\ IsNegative(y) THEN LtNonNegative(AbsF(y), AbsF(x))
       ELSE IF IsNegative(x) THEN TRUE
       ELSE IF IsNegative(y) THEN FALSE
       ELSE LtNonNegative(x, y)

LeF(x, y) == ~IsNaN(x) /\ ~IsNaN(y) /\ ~LtF(y, x)

\* x * y, rounded to nearest
MulF(x, y) ==
    IF IsNaN(x) \/ IsNaN(y) THEN NaN
    ELSE IF IsInfinite(x) \/ IsInfinite(y)
         THEN (IF x = Zero \/ y = Zero THEN NaN ELSE Inf)
    ELSE IF x.m = 0 \/ y.m = 0 THEN Zero
    ELSE LET a1 == x.m \div 4096
             a0 == x.m % 4096
             b1 == y.m \div 4096
             b0 == y.m % 4096
             t  == a1 * b0 + a0 * b1 + (a0 * b0) \div 4096
             \* floor(x.m * y.m / 2^22)
             hi == 4 * (a1 * b1) + t \div 1024
         IN  Norm(hi, x.e + y.e + 22)

RECURSIVE DivChunks(_, _, _, _)
\* n more base 32 digits of the quotient q, remainder r, divisor b
DivChunks(q, r, b, n) ==
    IF n = 0 THEN <<q, r>>
    ELSE DivChunks(q * 32 + (r * 32) \div b, (r * 32) % b, b, n - 1)

\* x / y, rounded to nearest
DivF(x, y) ==
    IF IsNaN(x) \/ IsNaN(y) THEN NaN
    ELSE IF IsInfinite(x) THEN (IF IsInfinite(y) THEN NaN ELSE Inf)
    ELSE IF IsInfinite(y) THEN Zero
    ELSE IF y.m = 0 THEN (IF x.m = 0 THEN NaN ELSE Inf)
    ELSE IF x.m = 0 THEN Zero
    ELSE LET d == DivChunks(x.m \div y.m, x.m % y.m, y.m, 5)
             \* d[1] = floor(x.m * 2^25 / y.m), one more bit for the rounding
             q2 == 2 * d[1] + (IF 2 * d[2] >= y.m THEN 1 ELSE 0)
         IN  Norm(q2, x.e - y.e - 26)

\* x + y of non-negative values
AddF(x, y) ==
    IF IsNaN(x) \/ IsNaN(y) THEN NaN
    ELSE IF IsInfinite(x) \/ IsInfinite(y) THEN Inf
    ELSE IF x.m = 0 THEN y
    ELSE IF y.m = 0 THEN x
    ELSE LET big == IF x.e >= y.e THEN x ELSE y
             sml == IF x.e >= y.e THEN y ELSE x
             sh  == big.e - sml.e
         IN  IF sh > MantBits + 1 THEN big
             ELSE IF sh = 0 THEN Norm(big.m + sml.m, big.e)
             ELSE Norm(2 * big.m + sml.m \div 2^(sh - 1), big.e - 1)

\* x - y for x >= y >= 0
SubF(x, y) ==
    IF IsNaN(x) \/ IsNaN(y) THEN NaN
    ELSE IF IsInfinite(x) THEN (IF IsInfinite(y) THEN NaN ELSE Inf)
    ELSE IF y.m = 0 THEN x
    ELSE LET sh == x.e - y.e
         IN  IF sh > MantBits + 1 THEN x
             ELSE IF sh = 0 THEN Norm(x.m - y.m, x.e)
             ELSE Norm(2 * x.m - y.m \div 2^(sh - 1), x.e - 1)

\* the integers next to a finite positive x, above and below
CeilPositive(x) ==
    IF x.e >= 0 THEN x
    ELSE IF -x.e >= MantBits THEN FromInt(1)
    ELSE FromInt(x.m \div 2^(-x.e) + (IF x.m % 2^(-x.e) > 0 THEN 1 ELSE 0))
FloorPositive(x) ==
    IF x.e >= 0 THEN x
    ELSE IF -x.e >= MantBits THEN Zero
    ELSE FromInt(x.m \div 2^(-x.e))

\* f64::ceil
CeilF(x) ==
    IF ~IsFinite(x) \/ x.m = 0 THEN x
    ELSE IF IsNegative(x) THEN NegF(FloorPositive(AbsF(x)))
    ELSE CeilPositive(x)

\* f64::floor
FloorF(x) ==
    IF ~IsFinite(x) \/ x.m = 0 THEN x
    ELSE IF IsNegative(x) THEN NegF(CeilPositive(AbsF(x)))
    ELSE FloorPositive(x)

\* x as a fixed point number (x * FixOne, rounded), for x below 2^30 / FixOne
ToFix(x) ==
    IF x.m = 0 THEN 0
    ELSE LET sh == x.e + FixBits
         IN  IF sh >= 0 THEN x.m * 2^sh
             ELSE IF -sh > 30 THEN 0
             ELSE (x.m + 2^(-sh - 1)) \div 2^(-sh)

\* the fixed point number v as an f64
FromFix(v) == Norm(v, -FixBits)

One == FromInt(1)
Half == Norm(1, -1)
\* 2_f64.ln() = 0.6931471805599453
Ln2 == Norm(11629080, -24)
Ln2Fix == ToFix(Ln2)

\* ------------------------------------------------------------------------
\* exp, ln and powf on fixed point numbers
\* ------------------------------------------------------------------------

\* floor(a * b / FixOne) for 0 <= a, b <= FixOne
MulFix(a, b) ==
    LET a1 == a \div 4096
        a0 == a % 4096
        b1 == b \div 4096
        b0 == b % 4096
    IN  (a1 * b1 + (a1 * b0 + a0 * b1 + (a0 * b0) \div 4096) \div 4096)
            \div 2^(FixBits - 24)

\* floor(a * FixOne / b) for 0 <= a <= b <= 2 * FixOne, b > 0
DivFix(a, b) == DivChunks(a \div b, a % b, b, 5)[1] \div 2^(25 - FixBits)

RECURSIVE ExpSeries(_, _, _, _)
\* sum of the Taylor series of exp(-r) from the term of index i on;
\* term = r^(i-1) / (i-1)!, acc = the sum so far
ExpSeries(term, i, r, acc) ==
    LET t == MulFix(term, r) \div i
    IN  IF t = 0 THEN acc
        ELSE ExpSeries(t, i + 1, r, IF i % 2 = 1 THEN acc - t ELSE acc + t)

\* exp(-x) for a fixed point x >= 0
ExpNegFix(x) ==
    LET q == x \div Ln2Fix
        r == x % Ln2Fix
    IN  IF q > 30 THEN 0 ELSE ExpSeries(FixOne, 1, r, FixOne) \div 2^q

RECURSIVE AtanhSeries(_, _, _, _)
\* sum of w^i / i over the odd i from i on; pw = w^i, w2 = w^2
AtanhSeries(pw, i, w2, acc) ==
    IF pw \div i = 0 THEN acc
    ELSE AtanhSeries(MulFix(pw, w2), i + 2, w2, acc + pw \div i)

RECURSIVE NegLnNorm(_, _)
\* -ln(y) for FixOne/2 <= y * 2^j <= FixOne, by ln z = -2 atanh((1-z)/(1+z))
NegLnNorm(y, j) ==
    IF 2 * y <= FixOne THEN NegLnNorm(2 * y, j + 1)
    ELSE LET w == DivFix(FixOne - y, FixOne + y)
         IN  j * Ln2Fix + 2 * AtanhSeries(w, 1, MulFix(w, w), 0)

\* -ln(y) for a fixed point 0 < y <= FixOne
NegLnFix(y) == NegLnNorm(y, 0)

\* rates: error_rate, target_err_rate
Rate(v) == [c |-> "fin", v |-> v]
NaNRate == [c |-> "nan", v |-> 0]
PosInfRate == [c |-> "inf", v |-> 1]
NegInfRate == [c |-> "inf", v |-> -1]
\* the rate p / 1000
PerMille(p) == Rate((FixOne \div 1000) * p + ((FixOne % 1000) * p) \div 1000)

\* IEEE a < b and a <= b on rates: false when either is NaN
LtRate(a, b) ==
    /\ a.c # "nan" /\ b.c # "nan"
    /\ IF a.c = "inf" THEN a.v < 0 /\ b # a
       ELSE IF b.c = "inf" THEN b.v > 0
       ELSE a.v < b.v
LeRate(a, b) == a.c # "nan" /\ b.c # "nan" /\ (a = b \/ LtRate(a, b))

\* exp(-x) for an f64 x >= 0, as a rate
ExpNegF(x) ==
    IF IsNaN(x) THEN NaNRate
    ELSE IF IsInfinite(x) \/ LeF(FromInt(20), x) THEN Rate(0)
    ELSE Rate(ExpNegFix(ToFix(x)))

\* base.powf(k) for a rate base in [0,1] and an f64 k > 0: exp(-k * -ln(base))
PowF(base, k) ==
    IF base.c = "nan" \/ IsNaN(k) THEN NaNRate
    ELSE IF base.v = 0 THEN Rate(0)
    ELSE ExpNegF(MulF(k, FromFix(NegLnFix(base.v))))

\* ------------------------------------------------------------------------
\* usize
\* ------------------------------------------------------------------------

\* A usize is the f64 record of its value when that is exact, and UsizeMax
\* for usize::MAX = 2^UsizeBits - 1, which no f64 holds.
UsizeBits == 64
UsizeMax == [c |-> "usize::MAX", m |-> 0, e |-> 0]
\* `usize::MAX as f64` rounds up to 2^64
UsizeMaxAsF64 == Norm(1, UsizeBits)
\* `u as f64`
AsF64(u) == IF u = UsizeMax THEN UsizeMaxAsF64 ELSE u
\* `x as usize` for a finite x >= 0: the cast saturates
AsUsize(x) == IF LeF(UsizeMaxAsF64, x) THEN UsizeMax ELSE x

\* ------------------------------------------------------------------------
\* src/src/utils.rs
\* ------------------------------------------------------------------------

Ok(v) == [ok |-> TRUE, val |-> v, err |-> "none"]
Err(e) == [ok |-> FALSE, val |-> Zero, err |-> e]

\* float_to_usize(number, _)
float_to_usize(number) ==
    IF IsFinite(number)
    THEN LET floored == FloorF(number)
         IN  IF LeF(Zero, floored) /\ LeF(floored, UsizeMaxAsF64)
             THEN Ok(AsUsize(floored))
             ELSE Err("ConversionError")
    ELSE Err("ConversionError")

\* ------------------------------------------------------------------------
\* src/src/bloom.rs: the parameter search
\* ------------------------------------------------------------------------

\* OPTIMIZATION_STEP = 1.01, in hundredths
OPTIMIZATION_STEP == 101

\* a search that forgets to grow num_bits
GrowBitsStuck(num_bits) == num_bits

\* (num_bits * OPTIMIZATION_STEP).ceil() for an integer valued num_bits.
\* While num_bits has room for fraction bits the product is taken exactly
\* and rounded up (f64 does the same for every num_bits below 2^46: the
\* error of the f64 product is below the distance to the next integer);
\* above, the product is rounded to the significand and ceil changes nothing.
GrowBits(num_bits) ==
    IF ~IsFinite(num_bits) \/ num_bits.m = 0 THEN num_bits
    ELSE IF num_bits.e < 0
         THEN LET n == ToInt(num_bits)
              IN  FromInt(n + (n * (OPTIMIZATION_STEP - 100) + 99) \div 100)
    ELSE Norm(num_bits.m + (num_bits.m * (OPTIMIZATION_STEP - 100) + 50) \div 100,
              num_bits.e)

\* false_positive_rate(bits, capacity, hash_fns_count):
\* (1.0 - (-hash_fns_count * (capacity + 0.5) / (bits - 1.0)).exp()).powf(hash_fns_count)
false_positive_rate(bits, capacity, hash_fns_count) ==
    LET x == DivF(MulF(hash_fns_count, AddF(capacity, Half)), SubF(bits, One))
        ex == ExpNegF(x)
    IN  IF ex.c = "nan" THEN NaNRate
        ELSE PowF(Rate(FixOne - ex.v), hash_fns_count)

\* a hash count without the factor ln 2
optimal_hash_fn_count_no_ln2(bits, capacity) == DivF(bits, capacity)

\* a hash count rounded to the nearest integer, and at least 1
optimal_hash_fn_count_rounded(bits, capacity) ==
    LET k == MulF(DivF(bits, capacity), Ln2)
        r == IF IsFinite(k) THEN FloorF(AddF(k, Half)) ELSE k
    IN  IF LtF(r, One) THEN One ELSE r

\* optimal_hash_fn_count(bits, capacity): (bits / capacity) * 2_f64.ln()
optimal_hash_fn_count(bits, capacity) == MulF(DivF(bits, capacity), Ln2)

\* the overflow guard of optimize_values
OverflowGuard(num_bits) == num_bits = F64Max \/ IsInfinite(num_bits)

\* the comparison the wrong way round
IsAcceptableFlipped(capacity, num_bits, hash_fns_count, target_error_rate) ==
    /\ target_error_rate.c # "nan"
    /\ LtRate(target_error_rate, false_positive_rate(num_bits, capacity, hash_fns_count))

\* error_rate < target_error_rate, error_rate being the rate of the call's
\* parameters; no rate is below a NaN target
IsAcceptableErrorRate(capacity, num_bits, hash_fns_count, target_error_rate) ==
    /\ target_error_rate.c # "nan"
    /\ LtRate(false_positive_rate(num_bits, capacity, hash_fns_count), target_error_rate)

\* one call of optimize_values returns (does not recurse)
OptimizeValuesReturns(capacity, num_bits, hash_fns_count, target_error_rate) ==
    \/ OverflowGuard(num_bits)
    \/ IsAcceptableErrorRate(capacity, num_bits, hash_fns_count, target_error_rate)

\* what that call returns: (num_bits, hash_fns_count.ceil(), error_rate)
OptimizeValuesResult(capacity, num_bits, hash_fns_count) ==
    [num_bits |-> num_bits,
     hash_fn_count |-> CeilF(hash_fns_count),
     error_rate |-> false_positive_rate(num_bits, capacity, hash_fns_count)]

\* optimize: the conversions of the search's result
optimize(r) ==
    [num_bits |-> float_to_usize(r.num_bits),
     hash_fn_count |-> float_to_usize(r.hash_fn_count),
     error_rate |-> r.error_rate]

\* ------------------------------------------------------------------------
\* u64 and the hashers
\* ------------------------------------------------------------------------

\* the base of the limbs of a u64
Limb == 2^16

\* (i as u64).wrapping_mul(h) for 0 <= i < 2^15
WrappingMul(i, h) ==
    LET p0 == h[4] * i
        p1 == h[3] * i + p0 \div Limb
        p2 == h[2] * i + p1 \div Limb
        p3 == h[1] * i + p2 \div Limb
    IN  <<p3 % Limb, p2 % Limb, p1 % Limb, p0 % Limb>>

\* an addition that stops at u64::MAX
SaturatingAdd(a, b) ==
    LET s0 == a[4] + b[4]
        s1 == a[3] + b[3] + s0 \div Limb
        s2 == a[2] + b[2] + s1 \div Limb
        s3 == a[1] + b[1] + s2 \div Limb
    IN  IF s3 >= Limb THEN <<Limb - 1, Limb - 1, Limb - 1, Limb - 1>>
        ELSE <<s3, s2 % Limb, s1 % Limb, s0 % Limb>>

\* a.wrapping_add(b)
WrappingAdd(a, b) ==
    LET s0 == a[4] + b[4]
        s1 == a[3] + b[3] + s0 \div Limb
        s2 == a[2] + b[2] + s1 \div Limb
        s3 == a[1] + b[1] + s2 \div Limb
    IN  <<s3 % Limb, s2 % Limb, s1 % Limb, s0 % Limb>>

\* h % n for 0 < n < 2^15
U64Mod(h, n) ==
    LET r3 == h[1] % n
        r2 == (r3 * Limb + h[2]) % n
        r1 == (r2 * Limb + h[3]) % n
    IN  (r1 * Limb + h[4]) % n

\* The items that are inserted and queried.
NumItems == 3
Items == 1 .. NumItems

\* XxHash64 is a crate outside the repository.  Its values on the items are
\* not known here: with the default seed 0 they are DefaultHashes, and the
\* seeds 1 .. NumHashValues^NumItems give every assignment of HashValues to
\* the items.  2^64 - 1, 2^63 + 1 and 2^64 - 3 make h1 + i * h2 wrap.
HashValues == << <<0, 0, 0, 7>>, <<65535, 65535, 65535, 65533>> >>
DefaultHashes == << <<65535, 65535, 65535, 65535>>, <<0, 0, 0, 6>>,
                    <<32768, 0, 0, 1>>, <<0, 1, 2, 3>> >>
NumHashValues == Len(HashValues)
Seeds == 0 .. NumHashValues^NumItems

\* XxHash64 of the bytes written, under a seed
XxHash64(seed, buf) ==
    IF Len(buf) # 1 THEN <<0, 0, 0, Len(buf) + 40>>
    ELSE IF seed = 0 THEN DefaultHashes[((buf[1] - 1) % Len(DefaultHashes)) + 1]
    ELSE HashValues[(((seed - 1) \div NumHashValues^(buf[1] - 1)) % NumHashValues) + 1]

\* XxHash64::with_seed(seed); XxHash64::default() is with_seed(0)
with_seed(seed) == [seed |-> seed, buf |-> <<>>]
\* Hasher::write: the hasher has consumed one more chunk
write(hasher, bytes) == [hasher EXCEPT !.buf = @ \o bytes]
\* Hasher::finish
finish(hasher) == XxHash64(hasher.seed, hasher.buf)

\* the bytes <T as Hash>::hash writes for an item
ItemBytes(item) == <<item>>

\* <T as Hash>::hash(item, state) for H = XxHash64: the item writes its
\* bytes to the hasher it is given
Hash_hash(item, state) == write(state, ItemBytes(item))

\* <&mut H as Hasher>::write: forwarded to the hasher behind the reference
RefWrite(ref, bytes) == [inner |-> write(ref.inner, bytes)]

\* a dyn_hash that does not hash the item
dyn_hash_writes_nothing(item, state) == state

\* src/src/lib.rs: impl<T: Hash + ?Sized> DynHash for T:
\* self.hash(&mut state), state being a &mut dyn Hasher: <T as Hash>::hash
\* for H = &mut dyn Hasher writes the item's bytes through the reference
dyn_hash(item, state) == RefWrite([inner |-> state], ItemBytes(item)).inner

\* src/src/lib.rs: impl Hash for dyn DynHash; Box<dyn DynHash> hashes as its content
BoxDynHash_hash(item, state) == dyn_hash(item, state)

\* item.hash(&mut hasher) for the item type T of get_bit_indexes<T>:
\* T = Box<dyn DynHash> from the DynFilter methods, the item's own type otherwise
HashItem(item, boxed, hasher) ==
    IF boxed THEN BoxDynHash_hash(item, hasher) ELSE Hash_hash(item, hasher)

\* ------------------------------------------------------------------------
\* src/src/bloom.rs: the filter
\* ------------------------------------------------------------------------

\* A BitVec is its length and the set of the indexes of its true bits.
\* bitvec![usize, Lsb0; 0; n]
ZeroBits(n) == [len |-> n, ones |-> {}]
\* array.get(idx) is Some(bit) for idx < len, and the bit
HasBit(array, idx) == idx < array.len
GetBit(array, idx) == idx \in array.ones
\* a write that flips the bit instead of setting it
FlipBit(array, idx) ==
    [array EXCEPT !.ones = IF idx \in @ THEN @ \ {idx} ELSE @ \cup {idx}]
\* array.set(idx, true), for idx < len (bitvec panics otherwise)
SetBit(array, idx) == [array EXCEPT !.ones = @ \cup {idx}]

\* array.iter_ones().count()
CountOnes(array) == Cardinality(array.ones)

NoFilter == [array |-> ZeroBits(0), false_positive_rate |-> NaNRate,
             hash_fn_count |-> 0, bit_size |-> 0]

\* indexes reduced modulo bit_size + 1: an index may be bit_size itself
get_bit_indexes_one_past(self, seed, item, boxed) ==
    LET hash_1 == finish(HashItem(item, boxed, with_seed(0)))
        hash_2 == finish(HashItem(item, boxed, with_seed(seed)))
    IN  [j \in 1 .. self.hash_fn_count |->
            U64Mod(WrappingAdd(hash_1, WrappingMul(j - 1, hash_2)), self.bit_size + 1)]

\* get_bit_indexes(self, item): Kirsch-Mitzenmacher double hashing
get_bit_indexes(self, seed, item, boxed) ==
    LET hash_1 == finish(HashItem(item, boxed, with_seed(0)))
        hash_2 == finish(HashItem(item, boxed, with_seed(seed)))
    IN  [j \in 1 .. self.hash_fn_count |->
            U64Mod(WrappingAdd(hash_1, WrappingMul(j - 1, hash_2)), self.bit_size)]

\* a loop that rebuilds the array from the indexes alone
SetBitsOverwrite(self, idxes) ==
    [self EXCEPT !.array.ones = {idxes[j] : j \in DOMAIN idxes}]

\* the array after the loop of insert
RECURSIVE SetBitsFrom(_, _, _)
SetBitsFrom(array, idxes, j) ==
    IF j > Len(idxes) THEN array
    ELSE SetBitsFrom(SetBit(array, idxes[j]), idxes, j + 1)
SetBits(self, idxes) == [self EXCEPT !.array = SetBitsFrom(self.array, idxes, 1)]

\* an index without a bit: set and the expect of might_contain panic
NoBitAtIndex(self, idxes) == \E j \in DOMAIN idxes : ~HasBit(self.array, idxes[j])

\* the loop of might_contain
AllBitsSet(self, idxes) == \A j \in DOMAIN idxes : GetBit(self.array, idxes[j])

\* an insert that stops after the first index
insert_first_index_only(self, seed, item, boxed) ==
    SetBits(self, <<get_bit_indexes(self, seed, item, boxed)[1]>>)

\* Filter::insert and DynFilter::insert (boxed)
insert(self, seed, item, boxed) == SetBits(self, get_bit_indexes(self, seed, item, boxed))

\* Filter::might_contain and DynFilter::might_contain (boxed)
might_contain(self, seed, item, boxed) ==
    AllBitsSet(self, get_bit_indexes(self, seed, item, boxed))

\* a reset that leaves the array alone
reset_keeps_array(self) == self

\* a reset that also resets the cached rate
reset_clears_rate(self) ==
    [self EXCEPT !.array = ZeroBits(self.bit_size), !.false_positive_rate = Rate(0)]

\* Filter::reset
reset(self) == [self EXCEPT !.array = ZeroBits(self.bit_size)]

\* f64::round of a non-negative value
RoundF(x) == FloorF(AddF(x, Half))

\* approximate_elems(bits, hash_fns_count, num_truthy_bits):
\* -1.0 * (m * (1.0 - x / m).log(E)) / k
approximate_elems(bits, hash_fns_count, num_truthy_bits) ==
    LET m == FromInt(bits)
        k == FromInt(hash_fns_count)
        x == FromInt(num_truthy_bits)
        r == SubF(One, DivF(x, m))
    IN  IF IsNaN(r) THEN NaN
        ELSE IF r = Zero THEN Inf
        ELSE DivF(MulF(m, FromFix(NegLnFix(ToFix(r)))), k)

\* count_approx(self): the estimate rounded, cast to usize (NaN casts to 0,
\* +infinity to usize::MAX)
count_approx(self) ==
    LET num_truthy_bits == CountOnes(self.array)
        n == RoundF(approximate_elems(self.bit_size, self.hash_fn_count, num_truthy_bits))
    IN  IF IsNaN(n) THEN Zero
        ELSE IF IsInfinite(n) THEN UsizeMax
        ELSE AsUsize(n)

\* bitvec refuses more than BitSlice::MAX_BITS = usize::MAX >> 3 bits
BitVecMaxBits == Norm(1, UsizeBits - 3)
AllocationFails(bit_count) == bit_count = UsizeMax \/ LeF(BitVecMaxBits, bit_count)

\* ------------------------------------------------------------------------
\* src/src/bloom.rs: SEED
\* ------------------------------------------------------------------------

\* a force that runs the closure whenever no value is stored yet
force_without_once(once_state) ==
    IF once_state = "complete" THEN "read" ELSE "init"

\* *SEED, LazyLock::force: what a thread does with the Once in the state it
\* finds: the first thread runs the closure, a thread that arrives while the
\* closure runs waits, a thread that finds the value reads it
force(once_state) ==
    IF once_state = "complete" THEN "read"
    ELSE IF once_state = "running" THEN "wait"
    ELSE "init"

\* ------------------------------------------------------------------------
\* src/src/cuckoo.rs
\* ------------------------------------------------------------------------

BUCKET_SIZE == 4
MAX_REBUCKET == 500
\* the values of a u8
U8Range == 256

\* Fingerprint { value }
Fingerprint(value) == [value |-> value]
EMPTY_FINGERPRINT == Fingerprint(0)

\* a create that keeps the remainder as it is
create_without_offset(hash) == Fingerprint(U64Mod(hash, U8Range))

\* Fingerprint::create(hash): (hash.finish() % 255 + 1) as u8; hash stands
\* for the u64 that hash.finish() returns
create(hash) == Fingerprint((U64Mod(hash, U8Range - 1) + 1) % U8Range)

\* Fingerprint::is_empty, Fingerprint::value
is_empty(fingerprint) == fingerprint.value = 0
value(fingerprint) == fingerprint.value

\* Bucket::new()
Bucket_new == [slots |-> [i \in 1 .. BUCKET_SIZE |-> EMPTY_FINGERPRINT]]

BucketOk(self) == [bucket |-> self, result |-> "Ok"]
BucketErr(self, e) == [bucket |-> self, result |-> e]

\* a try_insert that writes into the last empty slot
try_insert_last_empty(self, fingerprint) ==
    LET empty == {i \in 1 .. BUCKET_SIZE : is_empty(self.slots[i])}
    IN  IF empty = {} THEN BucketErr(self, "BucketFull")
        ELSE BucketOk([self EXCEPT
                 !.slots[CHOOSE i \in empty : \A j \in empty : j <= i] = fingerprint])

\* a try_insert that does not store a fingerprint the bucket holds already
try_insert_dedup(self, fingerprint) ==
    LET empty == {i \in 1 .. BUCKET_SIZE : is_empty(self.slots[i])}
    IN  IF \E i \in 1 .. BUCKET_SIZE : self.slots[i] = fingerprint THEN BucketOk(self)
        ELSE IF empty = {} THEN BucketErr(self, "BucketFull")
        ELSE BucketOk([self EXCEPT
                 !.slots[CHOOSE i \in empty : \A j \in empty : i <= j] = fingerprint])

\* the loop of try_insert from slot i on
RECURSIVE TryInsertFrom(_, _, _)
TryInsertFrom(self, fingerprint, i) ==
    IF i > BUCKET_SIZE THEN BucketErr(self, "BucketFull")
    ELSE IF is_empty(self.slots[i])
         THEN BucketOk([self EXCEPT !.slots[i] = fingerprint])
    ELSE TryInsertFrom(self, fingerprint, i + 1)

\* Bucket::try_insert(fingerprint)
try_insert(self, fingerprint) == TryInsertFrom(self, fingerprint, 1)

\* self.slots.iter().position(|fp| *fp == fingerprint) from slot i on;
\* 0 stands for None
RECURSIVE Position(_, _, _)
Position(self, fingerprint, i) ==
    IF i > BUCKET_SIZE THEN 0
    ELSE IF self.slots[i] = fingerprint THEN i
    ELSE Position(self, fingerprint, i + 1)

\* a try_delete that empties every slot that holds the fingerprint
try_delete_every_copy(self, fingerprint) ==
    IF Position(self, fingerprint, 1) = 0 THEN BucketErr(self, "FingerprintNotFound")
    ELSE BucketOk([self EXCEPT !.slots =
             [i \in 1 .. BUCKET_SIZE |->
                 IF self.slots[i] = fingerprint THEN EMPTY_FINGERPRINT ELSE self.slots[i]]])

\* Bucket::try_delete(fingerprint)
try_delete(self, fingerprint) ==
    LET idx == Position(self, fingerprint, 1)
    IN  IF idx # 0 THEN BucketOk([self EXCEPT !.slots[idx] = EMPTY_FINGERPRINT])
        ELSE BucketErr(self, "FingerprintNotFound")

\* Bucket::reset()
Bucket_reset(self) == Bucket_new

\* capacity.next_power_of_two(), for capacity below 2^30
RECURSIVE NextPowerOfTwoFrom(_, _)
NextPowerOfTwoFrom(n, p) == IF p >= n THEN p ELSE NextPowerOfTwoFrom(n, 2 * p)
next_power_of_two(n) == NextPowerOfTwoFrom(n, 1)

\* CuckooFilter::new(capacity)
CuckooFilter_new(capacity) ==
    LET p == next_power_of_two(capacity) \div BUCKET_SIZE
        buckets == IF p < 1 THEN 1 ELSE p
    IN  [filter |-> [i \in 1 .. buckets |-> Bucket_new]]

\* ------------------------------------------------------------------------
\* the state machine
\* ------------------------------------------------------------------------

VARIABLES
    pc,               \* "idle": before BloomFilter::new; "optimize_values": in the
                      \* search; "ready": new returned Ok; "err": new returned Err;
                      \* "panic": new panicked
    capacity,         \* the arguments of new
    target_err_rate,
    num_bits,         \* the parameters of the current call of optimize_values
    hash_fns_count,
    returned_by,      \* how the search ended: "accept", "guard" or "none"
    error,            \* the FilterError new returned
    self,             \* the BloomFilter
    SEED,             \* the LazyLock: unset until its first use
    inserted,         \* the items inserted since new or the last reset
    cleared,          \* the items the last reset removed, until the next insert
    last_write,       \* the last of new, insert and reset
    ret,              \* the last call on the filter and what it returned
    conversion,       \* the last call of float_to_usize and what it returned
    once,             \* the state of the Once inside the LazyLock of SEED
    draws,            \* how often the closure of SEED has run
    threads,          \* the threads that call get_bit_indexes
    cuckoo_pc,        \* "idle", "ready": CuckooFilter::new returned, or "panic"
    filter,           \* CuckooFilter.filter: the buckets
    bucket,           \* a Bucket: its slots
    stored,           \* per fingerprint: successful try_insert minus successful
                      \* try_delete calls since Bucket::new or the last reset
    cuckoo_ret        \* the last call of cuckoo.rs and what it returned

\* the variables of the Bloom filter, and those of the other specifications
bloom_vars == <<pc, capacity, target_err_rate, num_bits, hash_fns_count,
                returned_by, error, self, inserted, cleared, last_write, ret>>
conversion_vars == <<conversion>>
seed_vars == <<once, draws, threads>>
cuckoo_vars == <<cuckoo_pc, filter, bucket, stored, cuckoo_ret>>

vars == <<bloom_vars, SEED, conversion_vars, seed_vars, cuckoo_vars>>

\* the largest of the small capacities new is called with
MaxCapacity == 2

\* again: the item of an insert had been inserted before, since new or the
\* last reset
NoRet == [op |-> "none", item |-> 0, boxed |-> FALSE, flag |-> FALSE, count |-> Zero,
          again |-> FALSE]

Rates == {PerMille(-1000), PerMille(0), PerMille(1), PerMille(100), PerMille(500),
          PerMille(999), PerMille(1000), PerMille(1500), PosInfRate, NegInfRate}

\* the calls of new: the small capacities with every rate, the calls of the
\* crate's tests, a NaN rate (with one capacity >= 1: its search takes about
\* 71000 calls), and capacities of 2^62 and usize::MAX
NewArgs ==
    ({FromInt(n) : n \in 0 .. MaxCapacity} \X Rates)
    \cup {<<FromInt(100), PerMille(1)>>,
          <<FromInt(0), NaNRate>>, <<FromInt(1), NaNRate>>,
          <<UsizeMax, PerMille(999)>>, <<UsizeMax, PerMille(1)>>,
          <<Norm(1, 62), PerMille(500)>>}

\* no call of float_to_usize yet
NoConversion == [called |-> FALSE, number |-> Zero, result |-> Ok(Zero)]

\* the threads of the process, and a thread that has not called yet
NumThreads == 2
Threads == 1 .. NumThreads
NoCall == [pc |-> "idle", bit_size |-> 0, hash_fn_count |-> 0, item |-> 0,
           seed |-> 0, idxes |-> <<>>]

\* the fingerprint values the bucket is called with: empty, and two others
FingerprintValues == {0, 1, U8Range - 1}
StoredValues == FingerprintValues \ {value(EMPTY_FINGERPRINT)}

\* the capacities CuckooFilter::new is called with
MaxCuckooCapacity == 9

\* the values of a limb the hashes given to Fingerprint::create are made of
HashLimbs == {0, 1, U8Range - 2, U8Range - 1, Limb - 1}
\* the u64 hash values given to Fingerprint::create
CreateHashes ==
    {<<a, 0, 0, b>> : a \in {0, Limb - 1}, b \in HashLimbs}
    \cup {<<Limb - 1, Limb - 1, Limb - 1, b>> : b \in HashLimbs \cup {Limb - 2}}
    \cup {<<0, a, b, U8Range>> : a \in {0, 1}, b \in HashLimbs}

NoCuckooRet == [op |-> "none", result |-> "none", fingerprint |-> EMPTY_FINGERPRINT,
                hash |-> <<0, 0, 0, 0>>, before |-> Bucket_new, rebuckets |-> 0]

Init ==
    /\ pc = "idle"
    /\ capacity = Zero
    /\ target_err_rate = NaNRate
    /\ num_bits = Zero
    /\ hash_fns_count = Zero
    /\ returned_by = "none"
    /\ error = "none"
    /\ self = NoFilter
    /\ SEED = [set |-> FALSE, value |-> 0]
    /\ inserted = {}
    /\ cleared = {}
    /\ last_write = "none"
    /\ ret = NoRet
    /\ conversion = NoConversion
    /\ once = "incomplete"
    /\ draws = 0
    /\ threads = [t \in Threads |-> NoCall]
    /\ cuckoo_pc = "idle"
    /\ filter = <<>>
    /\ bucket = Bucket_new
    /\ stored = [v \in StoredValues |-> 0]
    /\ cuckoo_ret = NoCuckooRet

\* the parameter checks of new
InvalidParameter(cap, rate) ==
    \/ LtF(cap, One)
    \/ LeRate(rate, Rate(0)) \/ LeRate(Rate(FixOne), rate)

\* BloomFilter::new(cap, rate), up to the first call of optimize_values
New(cap, rate) ==
    /\ pc = "idle"
    /\ capacity' = cap
    /\ target_err_rate' = rate
    /\ IF InvalidParameter(AsF64(cap), rate)
       THEN /\ pc' = "err"
            /\ error' = "InvalidParameter"
            /\ UNCHANGED <<num_bits, hash_fns_count>>
       ELSE /\ pc' = "optimize_values"
            /\ num_bits' = MulF(AsF64(cap), FromInt(4))
            /\ hash_fns_count' = FromInt(2)
            /\ UNCHANGED error
    /\ UNCHANGED <<returned_by, self, SEED, inserted, cleared, last_write, ret>>
    /\ UNCHANGED <<conversion_vars, seed_vars, cuckoo_vars>>

\* optimize_values rejects its parameters and calls itself
OptimizeValuesRecurse ==
    /\ pc = "optimize_values"
    /\ ~OptimizeValuesReturns(AsF64(capacity), num_bits, hash_fns_count, target_err_rate)
    /\ num_bits' = GrowBits(num_bits)
    /\ hash_fns_count' = optimal_hash_fn_count(GrowBits(num_bits), AsF64(capacity))
    /\ UNCHANGED <<pc, capacity, target_err_rate, returned_by, error, self, SEED,
                   inserted, cleared, last_write, ret>>
    /\ UNCHANGED <<conversion_vars, seed_vars, cuckoo_vars>>

\* optimize_values returns; optimize converts; new builds the filter
OptimizeValuesReturn ==
    /\ pc = "optimize_values"
    /\ OptimizeValuesReturns(AsF64(capacity), num_bits, hash_fns_count, target_err_rate)
    /\ returned_by' = IF OverflowGuard(num_bits) THEN "guard" ELSE "accept"
    /\ LET r == optimize(OptimizeValuesResult(AsF64(capacity), num_bits, hash_fns_count))
       IN  IF ~r.num_bits.ok \/ ~r.hash_fn_count.ok
           THEN /\ pc' = "err"
                /\ error' = "ConversionError"
                /\ UNCHANGED <<self, last_write>>
           ELSE IF AllocationFails(r.num_bits.val)
           THEN /\ pc' = "panic"
                /\ UNCHANGED <<error, self, last_write>>
           ELSE /\ pc' = "ready"
                /\ self' = [array |-> ZeroBits(ToInt(r.num_bits.val)),
                            false_positive_rate |-> r.error_rate,
                            hash_fn_count |-> ToInt(r.hash_fn_count.val),
                            bit_size |-> ToInt(r.num_bits.val)]
                /\ last_write' = "new"
                /\ UNCHANGED error
    /\ UNCHANGED <<capacity, target_err_rate, num_bits, hash_fns_count, SEED,
                   inserted, cleared, ret>>
    /\ UNCHANGED <<conversion_vars, seed_vars, cuckoo_vars>>

\* *SEED: the first use draws the seed, every later use reads it
UseSeed(seed) ==
    /\ seed \in Seeds
    /\ IF SEED.set THEN seed = SEED.value ELSE TRUE
    /\ SEED' = [set |-> TRUE, value |-> seed]

\* Filter::insert(item), and DynFilter::insert(Box::new(item)) when boxed
Insert(item, boxed) ==
    /\ pc = "ready"
    /\ \E seed \in Seeds :
        /\ UseSeed(seed)
        /\ IF NoBitAtIndex(self, get_bit_indexes(self, seed, item, boxed))
           THEN /\ pc' = "panic"
                /\ UNCHANGED <<self, inserted, cleared, last_write, ret>>
           ELSE /\ self' = insert(self, seed, item, boxed)
                /\ inserted' = inserted \cup {item}
                /\ cleared' = {}
                /\ last_write' = "insert"
                /\ ret' = [NoRet EXCEPT !.op = "insert", !.item = item, !.boxed = boxed,
                                        !.again = item \in inserted]
                /\ UNCHANGED pc
    /\ UNCHANGED <<capacity, target_err_rate, num_bits, hash_fns_count,
                   returned_by, error>>
    /\ UNCHANGED <<conversion_vars, seed_vars, cuckoo_vars>>

\* Filter::might_contain(item), and DynFilter::might_contain(Box::new(item))
MightContain(item, boxed) ==
    /\ pc = "ready"
    /\ \E seed \in Seeds :
        /\ UseSeed(seed)
        /\ IF NoBitAtIndex(self, get_bit_indexes(self, seed, item, boxed))
           THEN pc' = "panic" /\ UNCHANGED ret
           ELSE /\ ret' = [NoRet EXCEPT !.op = "might_contain", !.item = item,
                                        !.boxed = boxed,
                                        !.flag = might_contain(self, seed, item, boxed)]
                /\ UNCHANGED pc
    /\ UNCHANGED <<capacity, target_err_rate, num_bits, hash_fns_count,
                   returned_by, error, self, inserted, cleared, last_write>>
    /\ UNCHANGED <<conversion_vars, seed_vars, cuckoo_vars>>

\* Filter::reset
Reset ==
    /\ pc = "ready"
    /\ self' = reset(self)
    /\ inserted' = {}
    /\ cleared' = inserted
    /\ last_write' = "reset"
    /\ ret' = [NoRet EXCEPT !.op = "reset"]
    /\ UNCHANGED <<pc, capacity, target_err_rate, num_bits, hash_fns_count,
                   returned_by, error, SEED>>
    /\ UNCHANGED <<conversion_vars, seed_vars, cuckoo_vars>>

\* BloomFilter::count_approx
CountApprox ==
    /\ pc = "ready"
    /\ ret' = [NoRet EXCEPT !.op = "count_approx", !.count = count_approx(self)]
    /\ UNCHANGED <<pc, capacity, target_err_rate, num_bits, hash_fns_count,
                   returned_by, error, self, SEED, inserted, cleared, last_write>>
    /\ UNCHANGED <<conversion_vars, seed_vars, cuckoo_vars>>

Next ==
    \/ \E a \in NewArgs : New(a[1], a[2])
    \/ OptimizeValuesRecurse
    \/ OptimizeValuesReturn
    \/ \E item \in Items, boxed \in BOOLEAN : Insert(item, boxed)
    \/ \E item \in Items, boxed \in BOOLEAN : MightContain(item, boxed)
    \/ Reset
    \/ CountApprox

Spec == Init /\ [][Next]_vars

\* ------------------------------------------------------------------------
\* src/src/cuckoo.rs: the calls
\* ------------------------------------------------------------------------

\* CuckooFilter::new(capacity)
CuckooNew(cap) ==
    /\ cuckoo_pc = "idle"
    /\ cuckoo_pc' = "ready"
    /\ filter' = CuckooFilter_new(cap).filter
    /\ cuckoo_ret' = [NoCuckooRet EXCEPT !.op = "new", !.result = "Ok"]
    /\ UNCHANGED <<bucket, stored>>
    /\ UNCHANGED <<bloom_vars, SEED, conversion_vars, seed_vars>>

\* insert, contains and reset of Filter for CuckooFilter, insert and contains
\* of DynFilter for CuckooFilter: todo!() panics
CuckooTodo(op) ==
    /\ cuckoo_pc = "ready"
    /\ cuckoo_pc' = "panic"
    /\ cuckoo_ret' = [NoCuckooRet EXCEPT !.op = op, !.result = "panic"]
    /\ UNCHANGED <<filter, bucket, stored>>
    /\ UNCHANGED <<bloom_vars, SEED, conversion_vars, seed_vars>>

CuckooInsert == CuckooTodo("insert")
CuckooContains == CuckooTodo("contains")
CuckooReset == CuckooTodo("reset")

\* Fingerprint::create(hash)
Create(hash) ==
    /\ cuckoo_pc # "panic"
    /\ cuckoo_ret' = [NoCuckooRet EXCEPT !.op = "create", !.result = "Ok",
                         !.fingerprint = create(hash), !.hash = hash]
    /\ UNCHANGED <<cuckoo_pc, filter, bucket, stored>>
    /\ UNCHANGED <<bloom_vars, SEED, conversion_vars, seed_vars>>

\* bucket.try_insert(fingerprint)
TryInsert(fingerprint) ==
    /\ cuckoo_pc # "panic"
    /\ LET r == try_insert(bucket, fingerprint)
       IN  /\ bucket' = r.bucket
           /\ stored' = IF r.result = "Ok" /\ ~is_empty(fingerprint)
                         THEN [stored EXCEPT ![value(fingerprint)] = @ + 1]
                         ELSE stored
           /\ cuckoo_ret' = [NoCuckooRet EXCEPT !.op = "try_insert", !.result = r.result,
                                !.fingerprint = fingerprint, !.before = bucket]
    /\ UNCHANGED <<cuckoo_pc, filter>>
    /\ UNCHANGED <<bloom_vars, SEED, conversion_vars, seed_vars>>

\* bucket.try_delete(fingerprint)
TryDelete(fingerprint) ==
    /\ cuckoo_pc # "panic"
    /\ LET r == try_delete(bucket, fingerprint)
       IN  /\ bucket' = r.bucket
           /\ stored' = IF r.result = "Ok" /\ ~is_empty(fingerprint)
                         THEN [stored EXCEPT ![value(fingerprint)] = @ - 1]
                         ELSE stored
           /\ cuckoo_ret' = [NoCuckooRet EXCEPT !.op = "try_delete", !.result = r.result,
                                !.fingerprint = fingerprint, !.before = bucket]
    /\ UNCHANGED <<cuckoo_pc, filter>>
    /\ UNCHANGED <<bloom_vars, SEED, conversion_vars, seed_vars>>

\* bucket.reset()
BucketReset ==
    /\ cuckoo_pc # "panic"
    /\ bucket' = Bucket_reset(bucket)
    /\ stored' = [v \in StoredValues |-> 0]
    /\ cuckoo_ret' = [NoCuckooRet EXCEPT !.op = "bucket_reset", !.result = "Ok",
                         !.before = bucket]
    /\ UNCHANGED <<cuckoo_pc, filter>>
    /\ UNCHANGED <<bloom_vars, SEED, conversion_vars, seed_vars>>

\* ------------------------------------------------------------------------
\* src/src/utils.rs: the calls of float_to_usize
\* ------------------------------------------------------------------------

\* the significands and exponents of the numbers float_to_usize is called with
NumberMants == {1, 3, 5, 7, MantHi - 1}
NumberExps == {-30, -2, -1, 0, 1, 10, 40, UsizeBits - MantBits, UsizeBits - 1,
               UsizeBits, UsizeBits + 1, 100, F64MaxExp}
\* the numbers: 0, positive and negative ones below 1, below 2^64, 2^64 and
\* above, the largest f64 below 2^64, f64::MAX, the infinities and NaN
PositiveNumbers == {Norm(m, e) : m \in NumberMants, e \in NumberExps}
Numbers ==
    PositiveNumbers \cup {NegF(x) : x \in PositiveNumbers}
        \cup {Zero, Inf, NegInf, NaN, F64Max, NegF(F64Max), UsizeMaxAsF64}

\* float_to_usize(number, _)
FloatToUsize(number) ==
    /\ conversion' = [called |-> TRUE, number |-> number,
                      result |-> float_to_usize(number)]
    /\ UNCHANGED <<bloom_vars, SEED, seed_vars, cuckoo_vars>>

ConversionNext == \E number \in Numbers : FloatToUsize(number)

ConversionSpec == Init /\ [][ConversionNext]_vars

\* ------------------------------------------------------------------------
\* src/src/bloom.rs: get_bit_indexes called by several threads
\* ------------------------------------------------------------------------

\* the filters of the threads: two of them have equal parameters
ThreadFilters == {[bit_size |-> 5, hash_fn_count |-> 3],
                  [bit_size |-> 8, hash_fn_count |-> 2]}
\* the items the threads hash
ThreadItems == {1, NumItems}

\* a thread calls get_bit_indexes(item) on its filter and comes to *SEED
CallGetBitIndexes(t, f, item) ==
    /\ threads[t].pc \in {"idle", "done"}
    /\ threads' = [threads EXCEPT ![t] =
                      [NoCall EXCEPT !.pc = "deref", !.bit_size = f.bit_size,
                                     !.hash_fn_count = f.hash_fn_count, !.item = item]]
    /\ UNCHANGED <<SEED, once, draws>>
    /\ UNCHANGED <<bloom_vars, conversion_vars, cuckoo_vars>>

\* *SEED: the thread takes the initialisation, or reads the value; a thread
\* that has to wait takes no step
Force(t) ==
    /\ threads[t].pc = "deref"
    /\ \/ /\ force(once) = "init"
          /\ once' = "running"
          /\ threads' = [threads EXCEPT ![t].pc = "init"]
          /\ UNCHANGED <<SEED, draws>>
       \/ /\ force(once) = "read"
          /\ threads' = [threads EXCEPT ![t].pc = "hash", ![t].seed = SEED.value]
          /\ UNCHANGED <<SEED, once, draws>>
    /\ UNCHANGED <<bloom_vars, conversion_vars, cuckoo_vars>>

\* the closure || random::<u64>() runs and its value is stored
RunClosure(t, seed) ==
    /\ threads[t].pc = "init"
    /\ SEED' = [set |-> TRUE, value |-> seed]
    /\ draws' = draws + 1
    /\ once' = "complete"
    /\ threads' = [threads EXCEPT ![t].pc = "hash", ![t].seed = seed]
    /\ UNCHANGED <<bloom_vars, conversion_vars, cuckoo_vars>>

\* the rest of get_bit_indexes: the hashes and the indexes
ReturnIndexes(t) ==
    /\ threads[t].pc = "hash"
    /\ threads' = [threads EXCEPT ![t].pc = "done",
                      ![t].idxes = get_bit_indexes(threads[t], threads[t].seed,
                                                   threads[t].item, FALSE)]
    /\ UNCHANGED <<SEED, once, draws>>
    /\ UNCHANGED <<bloom_vars, conversion_vars, cuckoo_vars>>

SeedNext ==
    \/ \E t \in Threads, f \in ThreadFilters, item \in ThreadItems :
           CallGetBitIndexes(t, f, item)
    \/ \E t \in Threads : Force(t)
    \/ \E t \in Threads, seed \in Seeds : RunClosure(t, seed)
    \/ \E t \in Threads : ReturnIndexes(t)

SeedSpec == Init /\ [][SeedNext]_vars

CuckooNext ==
    \/ \E cap \in 0 .. MaxCuckooCapacity : CuckooNew(cap)
    \/ CuckooInsert
    \/ CuckooContains
    \/ CuckooReset
    \/ \E hash \in CreateHashes : Create(hash)
    \/ \E v \in FingerprintValues : TryInsert(Fingerprint(v))
    \/ \E v \in FingerprintValues : TryDelete(Fingerprint(v))
    \/ BucketReset

CuckooSpec == Init /\ [][CuckooNext]_vars


\* ------------------------------------------------------------------------
\* the claims
\* ------------------------------------------------------------------------

\* the seeds a call of get_bit_indexes may read in this state
SeedsNow == IF SEED.set THEN {SEED.value} ELSE Seeds

\* C1: no false negatives.  In every state reached by inserts with no reset
\* in between, might_contain returns true for every item that was inserted,
\* whatever else was inserted before or after it.
C1_NoFalseNegatives ==
    pc = "ready" =>
        /\ \A item \in inserted :
            SEED.set /\ might_contain(self, SEED.value, item, FALSE)
        /\ (ret.op = "might_contain" /\ ret.item \in inserted) => ret.flag

\* an inserted item was queried after another item was inserted as well
C1_Witness ==
    /\ pc = "ready"
    /\ Cardinality(inserted) >= 2
    /\ ret.op = "might_contain" /\ ~ret.boxed /\ ret.item \in inserted /\ ret.flag

\* C2: the bits are monotone.  No step other than reset turns a true bit
\* false: insert, might_contain and count_approx keep every true bit (the
\* set of the true bits only grows, the length stays).
C2_BitsMonotone ==
    [][(pc = "ready" /\ ret'.op # "reset") =>
          /\ self.array.ones \subseteq self'.array.ones
          /\ self'.array.len = self.array.len]_vars

\* a bit is true after an insert and a later count_approx
C2_Witness ==
    /\ pc = "ready"
    /\ ret.op = "count_approx"
    /\ inserted # {}
    /\ self.array.ones # {}

\* C3: after reset, until the next insert, every bit is false, might_contain
\* returns false for every item and count_approx returns 0.
C3_AfterReset ==
    (pc = "ready" /\ last_write = "reset") =>
        /\ self.array = ZeroBits(self.bit_size)
        /\ \A item \in Items, seed \in SeedsNow :
            ~might_contain(self, seed, item, FALSE)
        /\ count_approx(self) = Zero
        /\ ret.op = "might_contain" => ~ret.flag
        /\ ret.op = "count_approx" => ret.count = Zero

\* an item that the reset removed was queried after the reset
C3_Witness ==
    /\ pc = "ready" /\ last_write = "reset"
    /\ ret.op = "might_contain" /\ ret.item \in cleared /\ ~ret.flag

\* C4: bit_size, hash_fn_count and false_positive_rate are fixed at
\* construction: no call on the filter changes them.
C4_ParametersFixed ==
    [][pc = "ready" =>
          /\ self'.bit_size = self.bit_size
          /\ self'.hash_fn_count = self.hash_fn_count
          /\ self'.false_positive_rate = self.false_positive_rate]_vars

\* a filter that was reset after an insert
C4_Witness ==
    /\ pc = "ready" /\ last_write = "reset" /\ cleared # {}
    /\ self.bit_size > 0 /\ self.hash_fn_count > 0

\* a rate strictly inside the open interval (0,1)
StrictlyInside01(rate) == rate.c = "fin" /\ 0 < rate.v /\ rate.v < FixOne

\* C5: new returns InvalidParameter, and no filter, whenever capacity < 1 or
\* target_err_rate is not strictly inside (0,1); new(1, 0.5) succeeds.
C5_InvalidParameter ==
    /\ (pc # "idle" /\ (capacity = Zero \/ ~StrictlyInside01(target_err_rate))) =>
          (pc = "err" /\ error = "InvalidParameter" /\ self = NoFilter)
    /\ (pc \notin {"idle", "optimize_values"} /\ capacity = FromInt(1)
          /\ target_err_rate = PerMille(500)) => pc = "ready"

C7_RateBelowTarget ==
    pc = "ready" => LtRate(self.false_positive_rate, target_err_rate)

\* a filter whose search had to grow num_bits
C7_Witness ==
    /\ pc = "ready" /\ capacity = FromInt(1) /\ target_err_rate = PerMille(1)
    /\ self.bit_size > 4

\* C8: construction is a function of (capacity, target_err_rate), whatever
\* the seed: new(100, 0.001) yields bit_size 1449, hash_fn_count 11 and a
\* false_positive_rate of 0.00098558 (to the resolution of a rate).
C8_DeterministicConstruction ==
    (pc = "ready" /\ capacity = FromInt(100) /\ target_err_rate = PerMille(1)) =>
        /\ self.bit_size = 1449
        /\ self.hash_fn_count = 11
        /\ self.false_positive_rate.c = "fin"
        /\ (self.false_positive_rate.v * 10000) \div (FixOne \div 1000) \in {9855, 9856}

\* new(100, 0.001) returned and the seed has been drawn
C8_Witness ==
    /\ pc = "ready" /\ capacity = FromInt(100) /\ target_err_rate = PerMille(1)
    /\ SEED.set /\ SEED.value # 0

\* C9: the type-erased insert and might_contain compute the indexes of the
\* generic ones, make the same transition and give the same answer; an item
\* inserted is reported by the boxed might_contain.
C9_DynEquivalent ==
    pc = "ready" =>
        \A item \in Items, seed \in SeedsNow :
            /\ get_bit_indexes(self, seed, item, TRUE)
                 = get_bit_indexes(self, seed, item, FALSE)
            /\ insert(self, seed, item, TRUE) = insert(self, seed, item, FALSE)
            /\ might_contain(self, seed, item, TRUE)
                 = might_contain(self, seed, item, FALSE)
            /\ item \in inserted => might_contain(self, seed, item, TRUE)

\* an item was inserted through the boxed insert
C9_Witness ==
    /\ pc = "ready"
    /\ ret.op = "insert" /\ ret.boxed /\ ret.item \in inserted
    /\ might_contain(self, SEED.value, ret.item, TRUE)

\* C11: every Cuckoo insert either stores the fingerprint or returns
\* BucketFull, after at most MAX_REBUCKET evict-and-relocate steps.
C11_InsertTerminates ==
    cuckoo_ret.op = "insert" =>
        /\ cuckoo_ret.result \in {"Ok", "BucketFull"}
        /\ cuckoo_ret.rebuckets <= MAX_REBUCKET

\* C12: the seed is generated at most once, also when several threads come
\* to its first use together, and never changes afterwards: every call of
\* get_bit_indexes sees the one value, so calls with the same item on filters
\* of equal bit_size and hash_fn_count return the same indexes.
C12_SeedOnce ==
    /\ [](draws <= 1)
    /\ [][SEED.set => SEED' = SEED]_vars
    /\ [](\A t \in Threads : threads[t].pc \in {"hash", "done"} =>
              (SEED.set /\ threads[t].seed = SEED.value))
    /\ [](\A t, u \in Threads :
              (/\ threads[t].pc = "done" /\ threads[u].pc = "done"
               /\ threads[t].item = threads[u].item
               /\ threads[t].bit_size = threads[u].bit_size
               /\ threads[t].hash_fn_count = threads[u].hash_fn_count)
              => threads[t].idxes = threads[u].idxes)

\* two threads came to the first use together: one ran the closure while the
\* other was at *SEED, and both have returned indexes for the same item
C12_Witness ==
    /\ draws = 1
    /\ \E t, u \in Threads :
          /\ t # u
          /\ threads[t].pc = "done" /\ threads[u].pc = "done"
          /\ threads[t].item = threads[u].item
          /\ threads[t].bit_size = threads[u].bit_size
          /\ Len(threads[t].idxes) > 0

\* C13: the stored false_positive_rate is the analytic rate at the stored
\* integers bit_size, hash_fn_count and the capacity.
C13_RateAtStoredCount ==
    pc = "ready" =>
        self.false_positive_rate =
            false_positive_rate(FromInt(self.bit_size), AsF64(capacity),
                                FromInt(self.hash_fn_count))

\* With C13, what the code stores: the analytic rate at bit_size, the
\* capacity and the hash count the search accepted, which is not rounded;
\* hash_fn_count is the ceiling of that count, so the stored rate is the
\* rate at hash_fn_count where the accepted count is an integer.
C13_RateAtAcceptedCount ==
    pc = "ready" =>
        /\ self.bit_size = ToInt(num_bits)
        /\ self.hash_fn_count = ToInt(CeilF(hash_fns_count))
        /\ self.false_positive_rate =
              false_positive_rate(FromInt(self.bit_size), AsF64(capacity), hash_fns_count)
        /\ hash_fns_count = CeilF(hash_fns_count) =>
              self.false_positive_rate =
                  false_positive_rate(FromInt(self.bit_size), AsF64(capacity),
                                      FromInt(self.hash_fn_count))

\* a filter whose search accepted a hash count that is no integer, and whose
\* rate at the stored hash_fn_count is not below the target
C13_Witness ==
    /\ pc = "ready" /\ capacity = FromInt(100)
    /\ hash_fns_count # CeilF(hash_fns_count)
    /\ self.hash_fn_count = 11
    /\ ~LtRate(false_positive_rate(FromInt(self.bit_size), AsF64(capacity),
                                   FromInt(self.hash_fn_count)), target_err_rate)

\* the largest num_bits whose steps C14 recomputes in integers
SmallBits == 3000
\* ln 2 in millionths
Ln2Millionths == 693147

\* C14: the hash count that is tested against the target, and the
\* hash_fn_count that is returned, is the rounded positive integer
\* round((bits / capacity) * ln 2).
C14_RoundedCount ==
    pc \in {"optimize_values", "ready"} =>
        /\ IsFinite(hash_fns_count) => hash_fns_count = RoundF(hash_fns_count)
        /\ pc = "ready" => self.hash_fn_count = ToInt(hash_fns_count)

\* C14, amended: the search starts from bits = 4 * capacity and k = 2; a
\* rejected step replaces bits by ceil(bits * 1.01) and k by
\* (bits / capacity) * ln 2, which is not rounded (to a thousandth it is
\* bits * 0.693147 / capacity); that k is the one tested against the target,
\* and the hash_fn_count returned is its ceiling, a positive integer.
C14_UnroundedCount ==
    /\ [][(pc = "idle" /\ pc' = "optimize_values") =>
            /\ num_bits' = MulF(AsF64(capacity'), FromInt(4))
            /\ hash_fns_count' = FromInt(2)]_vars
    /\ [][(pc = "optimize_values" /\ pc' = "optimize_values"
            /\ LtF(num_bits', FromInt(SmallBits))) =>
            LET n == ToInt(num_bits)
                m == ToInt(num_bits')
                c == ToInt(capacity)
                k1000 == ToInt(FloorF(MulF(hash_fns_count', FromInt(1000))))
                e1000 == (m * Ln2Millionths) \div (c * 1000)
            IN  /\ m = n + (n + 99) \div 100
                /\ k1000 - e1000 \in {-1, 0, 1}]_vars
    /\ [](pc = "ready" =>
            /\ IsAcceptableErrorRate(AsF64(capacity), num_bits, hash_fns_count,
                                      target_err_rate)
            /\ self.hash_fn_count = ToInt(CeilF(hash_fns_count))
            /\ self.hash_fn_count >= 1)

\* a search ended with a hash count of 10.04...: round gives 10, the
\* hash_fn_count returned is 11
C14_Witness ==
    /\ pc = "ready" /\ capacity = FromInt(100)
    /\ ToInt(RoundF(hash_fns_count)) = 10
    /\ self.hash_fn_count = 11

\* h1 + i * h2 as a mathematical integer: five limbs, the first being the
\* part above 2^64 (for i below 2^14)
ExactSum(h1, i, h2) ==
    LET p0 == h2[4] * i + h1[4]
        p1 == h2[3] * i + h1[3] + p0 \div Limb
        p2 == h2[2] * i + h1[2] + p1 \div Limb
        p3 == h2[1] * i + h1[1] + p2 \div Limb
    IN  <<p3 \div Limb, p3 % Limb, p2 % Limb, p1 % Limb, p0 % Limb>>

\* a mathematical integer of five limbs modulo n, for 0 < n < 2^15
ExactMod(x, n) ==
    LET r1 == x[1] % n
        r2 == (r1 * Limb + x[2]) % n
        r3 == (r2 * Limb + x[3]) % n
        r4 == (r3 * Limb + x[4]) % n
    IN  (r4 * Limb + x[5]) % n

\* x mod 2^64
Low64(x) == <<0, x[2], x[3], x[4], x[5]>>

RECURSIVE IsPowerOfTwo(_)
IsPowerOfTwo(n) == n = 1 \/ (n > 1 /\ n % 2 = 0 /\ IsPowerOfTwo(n \div 2))

\* the hashes of an item: the default hasher's and the seeded hasher's
Hash1(item) == finish(Hash_hash(item, with_seed(0)))
Hash2(item, seed) == finish(Hash_hash(item, with_seed(seed)))

\* C15: the i-th index of get_bit_indexes is (h1 + i * h2) mod bit_size, sum
\* and product taken as mathematical integers.
C15_ExactIndex ==
    pc = "ready" =>
        \A item \in Items, seed \in SeedsNow :
            LET idxes == get_bit_indexes(self, seed, item, FALSE)
            IN  \A j \in DOMAIN idxes :
                    idxes[j] = ExactMod(ExactSum(Hash1(item), j - 1, Hash2(item, seed)),
                                        self.bit_size)

\* C15, amended: there are hash_fn_count indexes, each below bit_size, and the
\* i-th is ((h1 + i * h2) mod 2^64) mod bit_size; it is (h1 + i * h2) mod
\* bit_size where h1 + i * h2 is at most 2^64 - 1 or bit_size is a power of two.
C15_WrappedIndex ==
    pc = "ready" =>
        \A item \in Items, seed \in SeedsNow :
            LET idxes == get_bit_indexes(self, seed, item, FALSE)
            IN  /\ DOMAIN idxes = 1 .. self.hash_fn_count
                /\ \A j \in DOMAIN idxes :
                      LET x == ExactSum(Hash1(item), j - 1, Hash2(item, seed))
                      IN  /\ idxes[j] \in 0 .. self.bit_size - 1
                          /\ idxes[j] = ExactMod(Low64(x), self.bit_size)
                          /\ (x[1] = 0 \/ IsPowerOfTwo(self.bit_size)) =>
                                idxes[j] = ExactMod(x, self.bit_size)

\* an item was inserted whose h1 + i * h2 exceeds 2^64 - 1, into a filter
\* whose bit_size is no power of two, at an index that is not
\* (h1 + i * h2) mod bit_size
C15_Witness ==
    /\ pc = "ready" /\ SEED.set /\ ~IsPowerOfTwo(self.bit_size)
    /\ ret.op = "insert" /\ ~ret.boxed
    /\ \E j \in 1 .. self.hash_fn_count :
          LET x == ExactSum(Hash1(ret.item), j - 1, Hash2(ret.item, SEED.value))
          IN  /\ x[1] > 0
              /\ get_bit_indexes(self, SEED.value, ret.item, FALSE)[j]
                    # ExactMod(x, self.bit_size)

\* the floor of a number is a value of usize: 0 <= floor < 2^64
Representable(number) ==
    /\ IsFinite(number)
    /\ ~IsNegative(FloorF(number))
    /\ LtF(FloorF(number), UsizeMaxAsF64)

\* C16: float_to_usize returns ConversionError for every number that is
\* negative, not finite or above usize::MAX, 2^64 included, and Ok, with the
\* floor of the number, only for the numbers usize holds.
C16_ConversionChecked ==
    conversion.called =>
        IF Representable(conversion.number)
        THEN conversion.result = Ok(FloorF(conversion.number))
        ELSE conversion.result = Err("ConversionError")

\* float_to_usize was called with 2^64 and returned Ok(usize::MAX)
C16_Witness ==
    /\ conversion.called
    /\ conversion.number = UsizeMaxAsF64
    /\ conversion.result = Ok(UsizeMax)

\* the slots of a bucket that are empty, that hold a fingerprint, and the
\* smallest of a set of slots
EmptySlots(b) == {i \in 1 .. BUCKET_SIZE : b.slots[i].value = 0}
SlotsHolding(b, fingerprint) == {i \in 1 .. BUCKET_SIZE : b.slots[i] = fingerprint}
Lowest(slots) == CHOOSE i \in slots : \A j \in slots : i <= j

\* C17: try_insert(fp) writes fp into the lowest-index empty slot and leaves
\* the other slots unchanged; with no empty slot it returns BucketFull and
\* leaves the bucket as it was.
C17_TryInsert ==
    cuckoo_ret.op = "try_insert" =>
        LET before == cuckoo_ret.before
            empty == EmptySlots(before)
        IN  IF empty = {}
            THEN cuckoo_ret.result = "BucketFull" /\ bucket = before
            ELSE /\ cuckoo_ret.result = "Ok"
                 /\ bucket.slots[Lowest(empty)] = cuckoo_ret.fingerprint
                 /\ \A i \in 1 .. BUCKET_SIZE \ {Lowest(empty)} :
                       bucket.slots[i] = before.slots[i]

\* a fingerprint was written into slot 2, the first of several empty slots
\* behind an occupied one
C17_Witness ==
    /\ cuckoo_ret.op = "try_insert" /\ cuckoo_ret.result = "Ok"
    /\ ~is_empty(cuckoo_ret.fingerprint)
    /\ EmptySlots(cuckoo_ret.before) = {2, 4}
    /\ bucket.slots[2] = cuckoo_ret.fingerprint
    /\ is_empty(bucket.slots[4])

\* C18: try_delete(fp) empties the lowest-index slot equal to fp and leaves
\* every other slot, further copies of fp included, unchanged; with no slot
\* equal to fp it returns FingerprintNotFound and leaves the bucket as it was.
C18_TryDelete ==
    cuckoo_ret.op = "try_delete" =>
        LET before == cuckoo_ret.before
            found == SlotsHolding(before, cuckoo_ret.fingerprint)
        IN  IF found = {}
            THEN cuckoo_ret.result = "FingerprintNotFound" /\ bucket = before
            ELSE /\ cuckoo_ret.result = "Ok"
                 /\ bucket.slots[Lowest(found)] = EMPTY_FINGERPRINT
                 /\ \A i \in 1 .. BUCKET_SIZE \ {Lowest(found)} :
                       bucket.slots[i] = before.slots[i]

\* a fingerprint held twice was deleted: its first copy is gone, the second
\* is still there
C18_Witness ==
    /\ cuckoo_ret.op = "try_delete" /\ cuckoo_ret.result = "Ok"
    /\ ~is_empty(cuckoo_ret.fingerprint)
    /\ SlotsHolding(cuckoo_ret.before, cuckoo_ret.fingerprint) = {2, 3}
    /\ SlotsHolding(bucket, cuckoo_ret.fingerprint) = {3}

\* C19: a bucket is a multiset of at most BUCKET_SIZE non-zero fingerprints:
\* the slots that hold fp are as many as the successful try_insert(fp) minus
\* the successful try_delete(fp) calls since the last reset, and try_insert
\* fails exactly when all the slots are occupied.
C19_BucketMultiset ==
    /\ \A v \in StoredValues :
          Cardinality(SlotsHolding(bucket, Fingerprint(v))) = stored[v]
    /\ stored[1] + stored[U8Range - 1] = BUCKET_SIZE - Cardinality(EmptySlots(bucket))
    /\ stored[1] + stored[U8Range - 1] <= BUCKET_SIZE
    /\ \A i \in 1 .. BUCKET_SIZE : bucket.slots[i].value \in FingerprintValues
    /\ cuckoo_ret.op = "try_insert" =>
          (cuckoo_ret.result = "BucketFull" <=> EmptySlots(cuckoo_ret.before) = {})

\* the same fingerprint was inserted a second time and holds two slots,
\* beside another fingerprint
C19_Witness ==
    /\ cuckoo_ret.op = "try_insert" /\ cuckoo_ret.result = "Ok"
    /\ ~is_empty(cuckoo_ret.fingerprint)
    /\ stored[value(cuckoo_ret.fingerprint)] = 2
    /\ \E v \in StoredValues : v # value(cuckoo_ret.fingerprint) /\ stored[v] = 1

\* C20: Fingerprint::create never yields the empty fingerprint: its value is
\* hash mod 255 + 1, in 1 ..= 255 (2^16 is 1 modulo 255, so hash mod 255 is
\* the sum of the limbs of the hash modulo 255).
C20_CreateNeverEmpty ==
    cuckoo_ret.op = "create" =>
        LET hash == cuckoo_ret.hash
            fp == cuckoo_ret.fingerprint
        IN  /\ value(fp) = ((hash[1] + hash[2] + hash[3] + hash[4]) % (U8Range - 1)) + 1
            /\ value(fp) \in 1 .. U8Range - 1
            /\ ~is_empty(fp)
            /\ fp # EMPTY_FINGERPRINT

\* the hash 2^64 - 1, a multiple of 255, gave the fingerprint 1
C20_Witness ==
    /\ cuckoo_ret.op = "create"
    /\ cuckoo_ret.hash = <<Limb - 1, Limb - 1, Limb - 1, Limb - 1>>
    /\ value(cuckoo_ret.fingerprint) = 1

\* C21: on every filter new returned, through every sequence of insert,
\* might_contain, count_approx and reset calls, the array has bit_size bits,
\* bit_size >= 1, and every index of get_bit_indexes is below bit_size: the
\* bit writes of insert and the expect of might_contain never panic (the only
\* panic is that of new, before there is a filter).
C21_IndexesInRange ==
    /\ pc = "ready" =>
          /\ self.array.len = self.bit_size
          /\ self.bit_size >= 1
          /\ self.array.ones \subseteq 0 .. self.bit_size - 1
          /\ \A item \in Items, boxed \in BOOLEAN, seed \in SeedsNow :
                LET idxes == get_bit_indexes(self, seed, item, boxed)
                IN  /\ Len(idxes) = self.hash_fn_count
                    /\ \A j \in DOMAIN idxes : idxes[j] \in 0 .. self.bit_size - 1
                    /\ ~NoBitAtIndex(self, idxes)
    /\ pc = "panic" => self = NoFilter /\ last_write = "none"

\* an insert wrote the last bit of the array, and might_contain read it
C21_Witness ==
    /\ pc = "ready"
    /\ ret.op = "might_contain" /\ ret.flag
    /\ last_write = "insert"
    /\ self.bit_size - 1 \in self.array.ones
    /\ self.array.len = self.bit_size

\* the orders in which the items of a set can be inserted
Orders(items) ==
    {order \in [1 .. Cardinality(items) -> items] :
        \A i, j \in DOMAIN order : order[i] = order[j] => i = j}

\* the filter after the inserts of a sequence of items
RECURSIVE InsertAll(_, _, _, _)
InsertAll(f, seed, order, boxed) ==
    IF order = <<>> THEN f
    ELSE InsertAll(insert(f, seed, Head(order), boxed), seed, Tail(order), boxed)

\* the bits of the items of a set
BitsOf(f, seed, items) ==
    UNION {{get_bit_indexes(f, seed, item, FALSE)[j] : j \in 1 .. f.hash_fn_count} :
              item \in items}

\* C22: the bit array is a function of the set of the items inserted since new
\* or the last reset: it holds the bits of these items and no others, the
\* inserts of these items in any order on the empty filter give it, and one
\* more insert of any of them leaves the filter as it is; so might_contain
\* and count_approx depend on that set alone.
C22_FunctionOfInsertedSet ==
    pc = "ready" =>
        \A seed \in SeedsNow :
            /\ self.array.ones = BitsOf(self, seed, inserted)
            /\ \A order \in Orders(inserted), boxed \in BOOLEAN :
                  InsertAll(reset(self), seed, order, boxed) = self
            /\ \A item \in inserted, boxed \in BOOLEAN :
                  insert(self, seed, item, boxed) = self
            /\ ret.op = "count_approx" =>
                  \A order \in Orders(inserted) :
                      ret.count = count_approx(InsertAll(reset(self), seed, order, FALSE))

\* every item is in the filter, the last insert was of an item inserted
\* before, and the items do not all have the same bits
C22_Witness ==
    /\ pc = "ready" /\ SEED.set
    /\ ret.op = "insert" /\ ret.again
    /\ inserted = Items
    /\ \E a, b \in inserted :
          BitsOf(self, SEED.value, {a}) # BitsOf(self, SEED.value, {b})
    /\ BitsOf(self, SEED.value, {ret.item}) # self.array.ones

=============================================================================
